---- MODULE Spec2Model ----
(***************************************************************************)
(* ScriptExecutor (lpm_kernel/api/common/script_executor.py).              *)
(*                                                                         *)
(* A str is a sequence of one-character strings; an Optional value is the  *)
(* empty sequence (None) or a one-element sequence holding the value.      *)
(* The child process, its pipe and the file system are the environment of  *)
(* execute(): they move on their own between the steps of execute().       *)
(***************************************************************************)
EXTENDS Integers, Sequences, FiniteSets, TLC

VARIABLES
    environ,      \* os.environ and the marker path, as __init__ finds them
    in_docker,    \* self.in_docker
    conda_env,    \* self.conda_env
    raised,       \* the exception that reached the caller, if any
    request,      \* the arguments of execute()
    cmd,          \* the command handed to Popen
    pc,           \* where the caller is
    proc,         \* the child: "none", "running", "exited"
    returncode,   \* what process.wait() reports once the child has exited
    stdoutOpen,   \* a write end of the combined output pipe is open
    outLimit,     \* how many characters the child and its descendants write at most
    written,      \* every character written to the pipe so far
    pipe,         \* the characters written and not yet returned by readline()
    unreadAtExit, \* the unread characters at the moment the child exited
    output,       \* what the latest readline() returned
    linesRead,    \* the non-empty lines readline() returned, in order
    console,      \* the texts given to print(), in order
    fsDirs,       \* the directories that exist
    logFile,      \* the content of the log file, None while it does not exist
    fsDirs0,      \* fsDirs when execute() was called
    logFile0,     \* logFile when execute() was called
    logOpens,     \* open() calls on the log file that succeeded
    logCloses,    \* log file handles closed
    fault,        \* str(e) of the exception raised inside execute(), if any
    result,       \* what execute() returned
    via           \* which return statement produced it

vars == <<environ, in_docker, conda_env, raised, request, cmd, pc, proc,
          returncode, stdoutOpen, outLimit, written, pipe, unreadAtExit, output, linesRead,
          console, fsDirs, logFile, fsDirs0, logFile0, logOpens, logCloses,
          fault, result, via>>

selfVars == <<in_docker, conda_env>>
childVars == <<proc, returncode, stdoutOpen, written, pipe, unreadAtExit>>
sinkVars == <<linesRead, console, logFile, logOpens, logCloses>>
callVars == <<environ, raised, request, fsDirs0, logFile0, outLimit>>

\* ---------------------------------------------------------------- bounds
\* Longest combined output (in characters) a child writes.
MaxOut == 3
\* Largest exit status a child exits with.
MaxExit == 2
\* Largest signal number a child is killed by.
MaxSig == 1
\* Longest combined output in the runs checked for progress.
MaxLiveOut == 2

\* ------------------------------------------------------- Optional and str
None == <<>>
Some(x) == <<x>>
\* Python truthiness of an Optional[str] / Optional[list]: None and the
\* empty value are false.
Truthy(o) == o # None /\ o[1] # <<>>

EndsWith(s, suffix) ==
    /\ Len(s) >= Len(suffix)
    /\ SubSeq(s, Len(s) - Len(suffix) + 1, Len(s)) = suffix

Whitespace == {" ", "\t", "\n", "\r"}

RECURSIVE LStrip(_)
LStrip(s) == IF s # <<>> /\ Head(s) \in Whitespace THEN LStrip(Tail(s)) ELSE s

RECURSIVE RStrip(_)
RStrip(s) ==
    IF s # <<>> /\ s[Len(s)] \in Whitespace
    THEN RStrip(SubSeq(s, 1, Len(s) - 1))
    ELSE s

\* str.strip(): whitespace removed at both ends.
Strip(s) == LStrip(RStrip(s))

DigitChars == <<"0", "1", "2", "3", "4", "5", "6", "7", "8", "9">>

RECURSIVE NatStr(_)
NatStr(n) ==
    IF n < 10 THEN <<DigitChars[n + 1]>>
    ELSE NatStr(n \div 10) \o <<DigitChars[(n % 10) + 1]>>

\* The f-string rendering of an int.
IntStr(c) == IF c < 0 THEN <<"-">> \o NatStr(-c) ELSE NatStr(c)

\* ------------------------------------------------------ literals of the code
DOT_PY == <<".", "p", "y">>
DOT_SH == <<".", "s", "h">>
PYTHON == <<"p", "y", "t", "h", "o", "n">>
CONDA == <<"c", "o", "n", "d", "a">>
RUN == <<"r", "u", "n">>
DASH_N == <<"-", "n">>
DASH_U == <<"-", "u">>
BASH == <<"b", "a", "s", "h">>
DASH_X == <<"-", "x">>
DOCKER_ENV == <<"d", "o", "c", "k", "e", "r", "-", "e", "n", "v">>
ONE == <<"1">>
FaultCode == -1

\* ------------------------------------------------------------ __init__
InDocker(env) == env.IN_DOCKER_ENV = Some(ONE) \/ env.dockerenv

\* Slip: only an unset variable is refused, an empty one passes.
InitRaisesUnset(env) == ~InDocker(env) /\ env.CONDA_DEFAULT_ENV = None

\* The constructor raises ValueError.
InitRaises(env) == ~InDocker(env) /\ ~Truthy(env.CONDA_DEFAULT_ENV)

CondaEnvOf(env) == IF InDocker(env) THEN DOCKER_ENV ELSE env.CONDA_DEFAULT_ENV[1]

\* ------------------------------------------------------- command building
Contains(s, sub) ==
    \E i \in 1 .. Len(s) - Len(sub) + 1 : SubSeq(s, i, i + Len(sub) - 1) = sub

\* Slip: the suffix tests written as substring tests (".py" in script_path).
BaseCmdContains(docker, envName, script_path) ==
    IF docker
    THEN IF Contains(script_path, DOT_PY)
         THEN <<PYTHON, script_path>>
         ELSE <<script_path>>
    ELSE IF Contains(script_path, DOT_PY)
         THEN <<CONDA, RUN, DASH_N, envName, PYTHON, DASH_U, script_path>>
         ELSE IF Contains(script_path, DOT_SH)
              THEN <<CONDA, RUN, DASH_N, envName, BASH, DASH_X, script_path>>
              ELSE <<CONDA, RUN, DASH_N, envName, script_path>>

BaseCmd(docker, envName, script_path) ==
    IF docker
    THEN IF EndsWith(script_path, DOT_PY)
         THEN <<PYTHON, script_path>>
         ELSE <<script_path>>
    ELSE IF EndsWith(script_path, DOT_PY)
         THEN <<CONDA, RUN, DASH_N, envName, PYTHON, DASH_U, script_path>>
         ELSE IF EndsWith(script_path, DOT_SH)
              THEN <<CONDA, RUN, DASH_N, envName, BASH, DASH_X, script_path>>
              ELSE <<CONDA, RUN, DASH_N, envName, script_path>>

ExtendArgs(c, args) == IF Truthy(args) THEN c \o args[1] ELSE c

BuildCmd(docker, envName, script_path, args) ==
    ExtendArgs(BaseCmd(docker, envName, script_path), args)

\* ---------------------------------------------------------------- results
FailedMsg(c) == <<"Execution failed, return code: ">> \o IntStr(c)

\* Slip: the failure test written return_code > 0.
CompletionResultPositive(c) ==
    [returncode |-> c, error |-> IF c > 0 THEN Some(FailedMsg(c)) ELSE None]

CompletionResult(c) ==
    [returncode |-> c, error |-> IF c # 0 THEN Some(FailedMsg(c)) ELSE None]

ErrorMsg(script_type, desc) ==
    <<"Error occurred while executing ">> \o script_type \o <<" script: ", desc>>

HandlerResult(script_type, desc) ==
    [error |-> Some(ErrorMsg(script_type, desc)), returncode |-> FaultCode]

\* ------------------------------------------------------------- os.path
RECURSIVE LastSlash(_)
\* 1 + the index of the last "/" of p (p.rfind("/") + 1), 0 when there is none.
LastSlash(p) ==
    IF p = <<>> THEN 0
    ELSE IF p[Len(p)] = "/" THEN Len(p)
    ELSE LastSlash(SubSeq(p, 1, Len(p) - 1))

RECURSIVE RStripSlash(_)
RStripSlash(s) ==
    IF s # <<>> /\ s[Len(s)] = "/"
    THEN RStripSlash(SubSeq(s, 1, Len(s) - 1))
    ELSE s

Dirname(p) ==
    LET head == SubSeq(p, 1, LastSlash(p))
    IN  IF head # <<>> /\ RStripSlash(head) # <<>> THEN RStripSlash(head) ELSE head

\* "/" always exists; any other directory exists when the file system holds it.
DirExists(dirs, d) == (d # <<>> /\ RStripSlash(d) = <<>>) \/ d \in dirs

\* Slip: the directory is looked up and never created.
MakedirsNoCreate(dirs, d) == dirs

\* os.makedirs(d, exist_ok=True) on the directories dirs.
Makedirs(dirs, d) == IF DirExists(dirs, d) THEN dirs ELSE dirs \cup {d}

\* --------------------------------------------------- text-mode readline
IsTerminator(ch) == ch \in {"\n", "\r"}

RECURSIVE FirstTerminator(_, _)
\* Index of the first "\n" or "\r" of buf at or after i, 0 when there is none.
FirstTerminator(buf, i) ==
    IF i > Len(buf) THEN 0
    ELSE IF IsTerminator(buf[i]) THEN i
    ELSE FirstTerminator(buf, i + 1)

Drop(buf, n) == SubSeq(buf, n + 1, Len(buf))

\* readline() of the text-mode (universal newlines) pipe holding the unread
\* characters buf, eof telling whether every write end is closed.  ready: the
\* call returns now (otherwise it blocks); line: what it returns, "" only
\* at end of stream; rest: what stays unread.
Readline(buf, eof) ==
    LET i == FirstTerminator(buf, 1)
        body == SubSeq(buf, 1, i - 1) \o <<"\n">>
    IN  IF i = 0
        THEN [ready |-> eof, line |-> buf, rest |-> <<>>]
        ELSE IF buf[i] = "\n"
        THEN [ready |-> TRUE, line |-> body, rest |-> Drop(buf, i)]
        ELSE IF i < Len(buf)
        THEN [ready |-> TRUE, line |-> body,
              rest |-> Drop(buf, IF buf[i + 1] = "\n" THEN i + 1 ELSE i)]
        ELSE [ready |-> eof, line |-> body, rest |-> <<>>]

\* Slip: the loop ends as soon as the child has terminated.
DrainDoneRace(line, polled) == polled

\* Slip: the loop ends at end of stream, whatever the child does.
DrainDoneEof(line, polled) == line = <<>>

\* Slip: the poll test inverted (process.poll() is None).
DrainDoneInverted(line, polled) == line = <<>> /\ ~polled

\* The loop's exit test: output == "" and process.poll() is not None.
DrainDone(line, polled) == line = <<>> /\ polled

\* What print() is given for a line.
ConsoleText(line) == Strip(line)

\* with open(log_file, "a") as f: f.write(output)
AppendTo(file, line) == IF file = None THEN Some(line) ELSE Some(file[1] \o line)

\* ----------------------------------------------------------------- inputs
EnvFlags == {None, Some(ONE), Some(<<"0">>), Some(<<"1", "1">>)}
EnvNames == {None, Some(<<>>), Some(<<"b", "a", "s", "e">>)}
Environs ==
    [IN_DOCKER_ENV : EnvFlags, dockerenv : BOOLEAN, CONDA_DEFAULT_ENV : EnvNames]

JOB_PY == <<"j", ".", "p", "y">>
\* None stands for a script_path that is no str (its endswith() raises).
Paths == {None, Some(JOB_PY), Some(<<"r", ".", "s", "h">>), Some(<<"l", "s">>),
          Some(DOT_PY), Some(<<"p", "y">>), Some(<<"a", ".", "p", "y", ".", "s", "h">>),
          Some(<<"s", "h", ".", "p", "y">>), Some(<<>>)}
ArgLists == {None, Some(<<>>), Some(<<<<"-", "-", "x">>>>),
             Some(<<<<"-", "-", "x">>, <<"1">>>>),
             Some(<<<<"1">>, <<"-", "-", "x">>>>)}
LOG_BARE == <<"f">>
LOG_IN_DIR == <<"d", "/", "f">>
LogFiles == {None, Some(<<>>), Some(LOG_BARE), Some(LOG_IN_DIR)}
KIND == <<"t", "r", "a", "i", "n">>

Requests(paths, argLists, shells, logs) ==
    [script_path : paths, script_type : {KIND}, args : argLists,
     shell : shells, log_file : logs]

OutChars == {"a", " ", "\n", "\r"}
ReturnCodes == (0 .. MaxExit) \cup {-s : s \in 1 .. MaxSig}
OldLog == <<"z", "\n">>

\* ------------------------------------------------------------------- Init
\* The part of the file system a request touches: the log file and its
\* directory.  A file exists only in a directory that exists.
FileSystemOf(req, dirs, file) ==
    IF Truthy(req.log_file) /\ Dirname(req.log_file[1]) # <<>>
    THEN /\ dirs \subseteq {Dirname(req.log_file[1])} \ {<<"/">>}
         /\ file # None => DirExists(dirs, Dirname(req.log_file[1]))
    ELSE dirs = {} /\ file = None

InitOver(envs, reqs, limit) ==
    /\ outLimit = limit
    /\ environ \in envs
    /\ request \in reqs
    /\ fsDirs \in SUBSET {<<"d">>}
    /\ logFile \in {None, Some(OldLog)}
    /\ FileSystemOf(request, fsDirs, logFile)
    /\ fsDirs0 = fsDirs
    /\ logFile0 = logFile
    /\ in_docker = FALSE
    /\ conda_env = <<>>
    /\ raised = None
    /\ cmd = <<>>
    /\ pc = "new"
    /\ proc = "none"
    /\ returncode = None
    /\ stdoutOpen = FALSE
    /\ written = <<>>
    /\ pipe = <<>>
    /\ unreadAtExit = None
    /\ output = None
    /\ linesRead = <<>>
    /\ console = <<>>
    /\ logOpens = 0
    /\ logCloses = 0
    /\ fault = None
    /\ result = None
    /\ via = "none"

\* --------------------------------------------------------------- __init__
Construct ==
    /\ pc = "new"
    /\ IF InitRaises(environ)
       THEN /\ raised' = Some("ValueError")
            /\ pc' = "raised"
            /\ UNCHANGED selfVars
       ELSE /\ in_docker' = InDocker(environ)
            /\ conda_env' = CondaEnvOf(environ)
            /\ pc' = "ready"
            /\ UNCHANGED raised
    /\ UNCHANGED <<environ, request, fsDirs0, logFile0, outLimit, cmd, childVars, output,
                   sinkVars, fsDirs, fault, result, via>>

\* ---------------------------------------------------------------- execute
\* Slip: except OSError, so that any other exception reaches the caller.
HandlerOSErrorOnly(desc) ==
    IF desc \in {"AttributeError", "UnicodeDecodeError"}
    THEN /\ raised' = Some(desc)
         /\ pc' = "raised"
         /\ UNCHANGED <<result, via>>
    ELSE /\ result' = Some(HandlerResult(request.script_type, desc))
         /\ via' = "handler"
         /\ pc' = "returned"
         /\ UNCHANGED raised

\* except Exception as e: ... return {"error": error_msg, "returncode": -1}
Handler(desc) ==
    /\ result' = Some(HandlerResult(request.script_type, desc))
    /\ via' = "handler"
    /\ pc' = "returned"
    /\ UNCHANGED raised

\* An exception with str(e) = desc is raised inside the try block.
Raise(desc) == fault' = Some(desc) /\ Handler(desc)

\* Lines 50-88: the command is built and logged.
BuildCommand ==
    /\ pc = "ready"
    /\ IF request.script_path = None
       THEN Raise("AttributeError") /\ UNCHANGED cmd
       ELSE /\ cmd' = BuildCmd(in_docker, conda_env, request.script_path[1],
                               request.args)
            /\ pc' = "mkdir"
            /\ UNCHANGED <<raised, fault, result, via>>
    /\ UNCHANGED <<environ, request, fsDirs0, logFile0, outLimit, selfVars, childVars,
                   output, sinkVars, fsDirs>>

\* Lines 91-92: os.makedirs(os.path.dirname(log_file), exist_ok=True).
PrepareLogDir ==
    /\ pc = "mkdir"
    /\ IF Truthy(request.log_file)
       THEN LET d == Dirname(request.log_file[1])
            IN  IF d = <<>>
                THEN Raise("FileNotFoundError") /\ UNCHANGED fsDirs
                ELSE /\ fsDirs' = Makedirs(fsDirs, d)
                     /\ pc' = "spawn"
                     /\ UNCHANGED <<raised, fault, result, via>>
       ELSE /\ pc' = "spawn"
            /\ UNCHANGED <<fsDirs, raised, fault, result, via>>
    /\ UNCHANGED <<environ, request, fsDirs0, logFile0, outLimit, selfVars, cmd, childVars,
                   output, sinkVars>>

\* os.makedirs fails on a directory it has to create (no permission).
MakedirsFault ==
    /\ pc = "mkdir"
    /\ Truthy(request.log_file)
    /\ Dirname(request.log_file[1]) # <<>>
    /\ ~DirExists(fsDirs, Dirname(request.log_file[1]))
    /\ Raise("PermissionError")
    /\ UNCHANGED <<environ, request, fsDirs0, logFile0, outLimit, selfVars, cmd, childVars,
                   output, sinkVars, fsDirs>>

\* Lines 95-103: subprocess.Popen(cmd, ...).
Spawn ==
    /\ pc = "spawn"
    /\ proc' = "running"
    /\ stdoutOpen' = TRUE
    /\ pc' = "drain"
    /\ UNCHANGED <<callVars, selfVars, cmd, returncode, written, pipe,
                   unreadAtExit, output, sinkVars, fsDirs, fault, result, via>>

\* Popen raises: the executable does not exist or may not be executed.
SpawnFault ==
    /\ pc = "spawn"
    /\ Raise("FileNotFoundError")
    /\ UNCHANGED <<environ, request, fsDirs0, logFile0, outLimit, selfVars, cmd, childVars,
                   output, sinkVars, fsDirs>>

\* ------------------------------------------------------- the child process
\* The child is followed while execute() is in its loop or its wait.
\* The child, or a descendant that inherited the pipe, writes a character.
ChildWrite ==
    /\ pc \in {"drain", "wait"}
    /\ stdoutOpen
    /\ Len(written) < outLimit
    /\ \E ch \in OutChars :
          /\ written' = Append(written, ch)
          /\ pipe' = Append(pipe, ch)
    /\ UNCHANGED <<callVars, selfVars, cmd, pc, proc, returncode, stdoutOpen,
                   unreadAtExit, output, sinkVars, fsDirs, fault, result, via>>

\* The last write end of the pipe is closed (the child may keep running).
ChildClose ==
    /\ pc \in {"drain", "wait"}
    /\ stdoutOpen
    /\ stdoutOpen' = FALSE
    /\ UNCHANGED <<callVars, selfVars, cmd, pc, proc, returncode, written, pipe,
                   unreadAtExit, output, sinkVars, fsDirs, fault, result, via>>

\* The child exits with a status, or is killed by signal s (returncode -s).
\* Its end of the pipe closes; a descendant may still hold the pipe open.
ChildExit ==
    /\ pc \in {"drain", "wait"}
    /\ proc = "running"
    /\ \E rc \in ReturnCodes : returncode' = Some(rc)
    /\ proc' = "exited"
    /\ stdoutOpen' \in {FALSE, stdoutOpen}
    /\ unreadAtExit' = Some(pipe)
    /\ UNCHANGED <<callVars, selfVars, cmd, pc, written, pipe, output, sinkVars,
                   fsDirs, fault, result, via>>

\* --------------------------------------------------------- the drain loop
\* Lines 106-116: one iteration of the loop.
ReadLine ==
    /\ pc = "drain"
    /\ LET r == Readline(pipe, ~stdoutOpen)
       IN  /\ r.ready
           /\ output' = Some(r.line)
           /\ pipe' = r.rest
           /\ IF DrainDone(r.line, proc = "exited")
              THEN /\ pc' = "wait"
                   /\ UNCHANGED <<sinkVars, raised, fault, result, via>>
              ELSE IF r.line # <<>>
              THEN /\ linesRead' = Append(linesRead, r.line)
                   /\ console' = Append(console, ConsoleText(r.line))
                   /\ IF Truthy(request.log_file)
                      THEN \/ /\ logFile' = AppendTo(logFile, r.line)
                              /\ logOpens' = logOpens + 1
                              /\ logCloses' = logCloses + 1
                              /\ UNCHANGED <<pc, raised, fault, result, via>>
                           \/ /\ Raise("open: PermissionError")
                              /\ UNCHANGED <<logFile, logOpens, logCloses>>
                           \/ /\ logFile' = AppendTo(logFile, <<>>)
                              /\ logOpens' = logOpens + 1
                              /\ logCloses' = logCloses + 1
                              /\ Raise("write: OSError")
                      ELSE UNCHANGED <<pc, logFile, logOpens, logCloses, raised,
                                       fault, result, via>>
              ELSE UNCHANGED <<pc, sinkVars, raised, fault, result, via>>
    /\ UNCHANGED <<environ, request, fsDirs0, logFile0, outLimit, selfVars, cmd, proc,
                   returncode, stdoutOpen, written, unreadAtExit, fsDirs>>

\* readline() raises on arrived data (bytes that do not decode, a read error).
ReadFault ==
    /\ pc = "drain"
    /\ pipe # <<>>
    /\ Raise("UnicodeDecodeError")
    /\ UNCHANGED <<environ, request, fsDirs0, logFile0, outLimit, selfVars, cmd, childVars,
                   output, sinkVars, fsDirs>>

\* Lines 118-131: process.wait() and the result.
Wait ==
    /\ pc = "wait"
    /\ proc = "exited"
    /\ result' = Some(CompletionResult(returncode[1]))
    /\ via' = "completion"
    /\ pc' = "returned"
    /\ UNCHANGED <<callVars, selfVars, cmd, childVars, output, sinkVars, fsDirs,
                   fault>>

\* process.wait() raises.
WaitFault ==
    /\ pc = "wait"
    /\ Raise("OSError")
    /\ UNCHANGED <<environ, request, fsDirs0, logFile0, outLimit, selfVars, cmd, childVars,
                   output, sinkVars, fsDirs>>

\* ------------------------------------------------------- specifications
ExecutorStep == BuildCommand \/ PrepareLogDir \/ Spawn \/ ReadLine \/ Wait

Next ==
    \/ Construct
    \/ BuildCommand
    \/ PrepareLogDir
    \/ MakedirsFault
    \/ Spawn
    \/ SpawnFault
    \/ ChildWrite
    \/ ChildClose
    \/ ChildExit
    \/ ReadLine
    \/ ReadFault
    \/ Wait
    \/ WaitFault

RunEnvirons ==
    {[IN_DOCKER_ENV |-> None, dockerenv |-> FALSE,
      CONDA_DEFAULT_ENV |-> Some(<<"b", "a", "s", "e">>)],
     [IN_DOCKER_ENV |-> None, dockerenv |-> FALSE, CONDA_DEFAULT_ENV |-> None]}
RunRequests ==
    Requests({None, Some(JOB_PY)}, {Some(<<<<"-", "-", "x">>>>)}, {FALSE}, LogFiles)

Init == InitOver(RunEnvirons, RunRequests, MaxOut)

Spec == Init /\ [][Next]_vars

\* The interpreter runs execute() whenever it is not blocked; nothing makes
\* the child write, close or exit, and no fault has to happen.
\* One call in a container, logging to a file in a directory still to make.
InitLive ==
    /\ InitOver({[IN_DOCKER_ENV |-> Some(ONE), dockerenv |-> TRUE,
                  CONDA_DEFAULT_ENV |-> None]},
                Requests({None, Some(JOB_PY)}, {None}, {FALSE},
                         {Some(LOG_IN_DIR)}),
                MaxLiveOut)
    /\ fsDirs = {}

FairSpec == InitLive /\ [][Next]_vars /\ WF_vars(ExecutorStep)

\* Construction and command building alone, over all the inputs.
InitCmd == InitOver(Environs, Requests(Paths, ArgLists, BOOLEAN, {None}), 0)

NextCmd == Construct \/ BuildCommand

SpecCmd == InitCmd /\ [][NextCmd]_vars

\* ================================================================ claims
Content(file) == IF file = None THEN <<>> ELSE file[1]
LogWanted == Truthy(request.log_file)
Returned == result # None

\* C1. execute() never raises: whatever step faults, it returns exactly
\* {returncode: -1, error: "Error occurred while executing {script_type}
\* script: {str(e)}"}; only the constructor's ValueError reaches a caller.
C1_ExecuteNeverRaises ==
    /\ raised # None =>
          /\ raised = Some("ValueError")
          /\ pc = "raised"
          /\ ~Returned /\ fault = None
    /\ pc = "raised" <=> raised # None
    /\ fault # None =>
          /\ pc = "returned"
          /\ result = Some([returncode |-> -1,
                            error |-> Some(<<"Error occurred while executing ">>
                                           \o request.script_type
                                           \o <<" script: ", fault[1]>>)])

\* A fault while appending to the log, the child still running.
C1_Witness ==
    /\ fault = Some("write: OSError")
    /\ proc = "running"
    /\ result = Some([returncode |-> -1,
                      error |-> Some(<<"Error occurred while executing ",
                                       "t", "r", "a", "i", "n",
                                       " script: ", "write: OSError">>)])

C2_Containerized == environ.IN_DOCKER_ENV = <<<<"1">>>> \/ environ.dockerenv
C2_NoEnvName == environ.CONDA_DEFAULT_ENV \in {<<>>, <<<<>>>>}

\* C2. Construction raises iff the context is not containerized and
\* CONDA_DEFAULT_ENV is unset or empty; containerized: it succeeds with the
\* placeholder name; otherwise the name is the non-empty CONDA_DEFAULT_ENV.
C2_Construction ==
    pc # "new" =>
       /\ pc = "raised" <=> (~C2_Containerized /\ C2_NoEnvName)
       /\ pc = "raised" => raised = Some("ValueError")
       /\ C2_Containerized =>
             /\ in_docker
             /\ conda_env = <<"d", "o", "c", "k", "e", "r", "-", "e", "n", "v">>
       /\ (~C2_Containerized /\ pc # "raised") =>
             /\ ~in_docker
             /\ conda_env # <<>>
             /\ <<conda_env>> = environ.CONDA_DEFAULT_ENV

\* IN_DOCKER_ENV is "11", no marker, CONDA_DEFAULT_ENV is "": refused.
C2_Witness ==
    /\ pc = "raised"
    /\ environ.IN_DOCKER_ENV = <<<<"1", "1">>>>
    /\ environ.CONDA_DEFAULT_ENV = <<<<>>>>

C3_Kind(p) ==
    IF Len(p) < 3 THEN "other"
    ELSE LET last3 == <<p[Len(p) - 2], p[Len(p) - 1], p[Len(p)]>>
         IN  CASE last3 = <<".", "p", "y">> -> "py"
               [] last3 = <<".", "s", "h">> -> "sh"
               [] OTHER -> "other"

C3_Reference(docker, envName, p, args) ==
    LET kind == C3_Kind(p)
        launcher ==
            IF docker
            THEN IF kind = "py" THEN <<PYTHON>> ELSE <<>>
            ELSE <<CONDA, RUN, DASH_N, envName>>
                 \o CASE kind = "py" -> <<PYTHON, DASH_U>>
                      [] kind = "sh" -> <<BASH, DASH_X>>
                      [] OTHER -> <<>>
    IN  launcher \o <<p>> \o (IF args = None THEN <<>> ELSE args[1])

\* C3. The command is the reference function of (in_docker, conda_env,
\* script_path, args), args appended in order, absent or empty args nothing.
C3_Command ==
    pc = "mkdir" =>
       cmd = C3_Reference(in_docker, conda_env, request.script_path[1],
                          request.args)

\* "a.py.sh" with two arguments, outside a container.
C3_Witness ==
    /\ pc = "mkdir"
    /\ request.script_path = Some(<<"a", ".", "p", "y", ".", "s", "h">>)
    /\ request.args = Some(<<<<"-", "-", "x">>, <<"1">>>>)
    /\ cmd = <<CONDA, RUN, DASH_N, <<"b", "a", "s", "e">>, BASH, DASH_X,
               <<"a", ".", "p", "y", ".", "s", "h">>, <<"-", "-", "x">>, <<"1">>>>

RECURSIVE SplitLines(_)
\* The lines of a text: each ends with its "\n", but perhaps the last.
SplitLines(t) ==
    IF t = <<>> THEN <<>>
    ELSE LET i == CHOOSE k \in 1 .. Len(t) :
                     /\ t[k] = "\n" \/ k = Len(t)
                     /\ \A j \in 1 .. k - 1 : t[j] # "\n"
         IN  <<SubSeq(t, 1, i)>> \o SplitLines(SubSeq(t, i + 1, Len(t)))

WithoutNewline(l) ==
    IF l # <<>> /\ l[Len(l)] = "\n" THEN SubSeq(l, 1, Len(l) - 1) ELSE l

RECURSIVE UniversalNewlines(_)
\* A text with every "\r\n" and every other "\r" replaced by "\n".
UniversalNewlines(t) ==
    IF t = <<>> THEN <<>>
    ELSE IF t[1] = "\r"
    THEN <<"\n">> \o UniversalNewlines(
             IF Len(t) >= 2 /\ t[2] = "\n" THEN SubSeq(t, 3, Len(t)) ELSE Tail(t))
    ELSE <<t[1]>> \o UniversalNewlines(Tail(t))

C5_Case == via = "completion" /\ returncode = Some(0) /\ written = <<>>

\* C5 as stated: exit 0 without output gives {0, None} and, with a log file
\* requested, the log file and its directory exist.
C5_Original ==
    C5_Case =>
       /\ result = Some([returncode |-> 0, error |-> None])
       /\ LogWanted =>
             /\ logFile # None
             /\ DirExists(fsDirs, Dirname(request.log_file[1]))

\* C5, amended. Exit 0 without output gives {0, None}; the directory of a
\* requested log file exists, and the log file is as it was before the call:
\* execute() does not create it.
C5_NoOutput ==
    C5_Case =>
       /\ result = Some([returncode |-> 0, error |-> None])
       /\ logFile = logFile0
       /\ LogWanted => DirExists(fsDirs, Dirname(request.log_file[1]))

\* The directory was missing and is there; the log file is not.
C5_Witness ==
    /\ C5_Case
    /\ LogWanted
    /\ fsDirs0 = {} /\ fsDirs = {<<"d">>}
    /\ logFile = None

\* C6. A run without fault returns the child's code c, with no error when
\* c = 0 and "Execution failed, return code: c" otherwise; over all results
\* the error is present iff the code is not 0 or a fault occurred.
C6_ExitCode ==
    /\ via = "completion" =>
          LET c == returncode[1]
          IN  /\ result[1].returncode = c
              /\ c = 0 => result[1].error = None
              /\ c # 0 => result[1].error =
                             Some(<<"Execution failed, return code: ">> \o IntStr(c))
    /\ Returned =>
          (result[1].error # None <=> (result[1].returncode # 0 \/ fault # None))

C6_Witness ==
    /\ via = "completion"
    /\ returncode = Some(2)
    /\ result = Some([returncode |-> 2,
                      error |-> Some(<<"Execution failed, return code: ", "2">>)])

\* C7. The loop is left only when the latest read returned end of stream and
\* the child has terminated, nothing being unread; a normal result is never
\* returned while the child runs.
C7_DrainExit ==
    /\ pc = "wait" =>
          /\ output = Some(<<>>)
          /\ proc = "exited"
          /\ pipe = <<>> /\ ~stdoutOpen
    /\ via = "completion" => proc = "exited" /\ pipe = <<>>

\* End of stream was read while the child runs: the loop goes on.
C7_Witness ==
    /\ pc = "drain"
    /\ output = Some(<<>>)
    /\ proc = "running"
    /\ linesRead # <<>>

ChildGone == proc = "exited" /\ ~stdoutOpen

\* C8 as stated: once the child has closed its output and terminated,
\* execute() returns; with a child that never terminates it never returns.
C8_Original ==
    /\ ChildGone ~> (pc = "returned")
    /\ [](proc # "exited") => [](~(pc = "returned" /\ proc = "running"))

\* C8, amended. Once the child has closed its output and terminated,
\* execute() returns; with a child that never terminates it never returns a
\* normal result (a fault while draining still returns the -1 result).
C8_Blocking ==
    /\ ChildGone ~> (pc = "returned")
    /\ [](proc # "exited") => [](via # "completion")

\* A fault result returned while the child runs on.
C8_Witness ==
    /\ pc = "returned"
    /\ via = "handler"
    /\ proc = "running"
    /\ stdoutOpen
    /\ linesRead # <<>>

RECURSIVE Concat(_)
Concat(ls) == IF ls = <<>> THEN <<>> ELSE Head(ls) \o Concat(Tail(ls))

\* C9 as stated: each line read is printed with its trailing whitespace
\* removed and nothing else changed, appended raw to the log file, the file
\* being opened and closed once per line.
C9_Original ==
    /\ Len(console) = Len(linesRead)
    /\ \A i \in 1 .. Len(linesRead) : console[i] = RStrip(linesRead[i])
    /\ logOpens = logCloses
    /\ (LogWanted /\ fault = None) =>
          /\ Content(logFile) = Content(logFile0) \o Concat(linesRead)
          /\ logOpens = Len(linesRead)

\* C10 as stated: a result with returncode -1 comes from the fault handler.
C10_Original ==
    (Returned /\ result[1].returncode = -1) =>
       /\ via = "handler"
       /\ fault # None
       /\ result[1].error = Some(ErrorMsg(request.script_type, fault[1]))

====
